---- MODULE Spec2Model ----
(***************************************************************************)
(* Model of src/edit_distance.py: get_matrix builds the cost matrix and    *)
(* the action matrix, get_prescription walks the action matrix back to     *)
(* the origin, get_redaction replays the prescription on a working copy    *)
(* of the original sequence, yielding one step per entry.                  *)
(*                                                                         *)
(* Python lists are 0-based; TLA+ sequences are 1-based.  The matrices are *)
(* functions over 0..n and 0..m, so matrix[i][j] is written as in the      *)
(* source; the strings and the working list are sequences, so Python       *)
(* s[k] is s[k + 1] here.                                                  *)
(***************************************************************************)
EXTENDS Integers, Sequences, FiniteSets, TLC

\* Bounds of the model: longest input sequence, size of the alphabet.
MaxLen == 3
NumChars == 2

Chars == 1..NumChars
Inputs == UNION {[1..n -> Chars] : n \in 0..MaxLen}

REPLACE == "R"
INSERT == "I"
DELETE == "D"
MATCH == "M"

COST_MAP == [R |-> 4, I |-> 3, D |-> 2, M |-> 0]

VARIABLES
    original,       \* first argument of get_matrix / get_redaction
    final,          \* second argument
    pc,             \* position of the pipeline of main()
    matrix,         \* get_matrix: cost matrix
    action_matrix,  \* get_matrix: action matrix
    gm_i, gm_j,     \* get_matrix: loop variables i, j
    gp_i, gp_j,     \* get_prescription: i, j
    prescr,         \* get_prescription: reverse-order buffer
    prescription,   \* value returned by get_prescription
    started,        \* get_redaction: generator body has been entered
    gr_k,           \* get_redaction: entries of the prescription consumed
    gr_i,           \* get_redaction: cursor i
    total,          \* get_redaction: running total
    heap,           \* list objects allocated by get_redaction
    result,         \* get_redaction: reference (index in heap) of the working list
    yielded,        \* tuples <<action, i, total, reference>> handed to the consumer
    seen,           \* content of the working list when each tuple was yielded
    err             \* exception that ended the run, "" if none

vars == <<original, final, pc, matrix, action_matrix, gm_i, gm_j, gp_i, gp_j,
          prescr, prescription, started, gr_k, gr_i, total, heap, result,
          yielded, seen, err>>

size_origin == Len(original) + 1
size_final == Len(final) + 1

----------------------------------------------------------------------------
\* Python helpers

Min3(a, b, c) ==
    IF a <= b /\ a <= c THEN a ELSE IF b <= c THEN b ELSE c

\* list.reverse()
Reverse(s) == [k \in 1..Len(s) |-> s[Len(s) + 1 - k]]

\* list.pop(k) for 0 <= k < len
ListPop(s, k) == SubSeq(s, 1, k) \o SubSeq(s, k + 2, Len(s))

\* list.insert(k, x) for k >= 0: positions past the end append
ListInsert(s, k, x) ==
    LET kk == IF k > Len(s) THEN Len(s) ELSE k
    IN SubSeq(s, 1, kk) \o <<x>> \o SubSeq(s, kk + 1, Len(s))

\* s[k] = x for 0 <= k < len
ListSet(s, k, x) == [s EXCEPT ![k + 1] = x]

\* Python subscript on a list of length n: negative indices count from the end
InRange(k, n) == -n <= k /\ k < n
PyIndex(k, n) == IF k < 0 THEN k + n ELSE k

----------------------------------------------------------------------------
\* get_matrix

\* matrix[i][0] = i ; matrix[0][j] = j
BorderCost(k) == k

\* action_matrix[i][0] = DELETE
BorderColAction == DELETE

\* row 0 tagged like column 0
BorderRowAction_Delete == DELETE

\* action_matrix[0][j] = INSERT
BorderRowAction == INSERT

\* the pair indexed the wrong way round
ReplaceAction_Swapped(char_origin, char_final) ==
    IF char_origin = char_final THEN REPLACE ELSE MATCH

\* (REPLACE, MATCH)[char_origin == char_final]
ReplaceAction(char_origin, char_final) ==
    IF char_origin = char_final THEN MATCH ELSE REPLACE

\* the chain with the delete test ahead of the insert test
SelectAction_DeleteFirst(optimal, insert, delete, replace, replace_action) ==
    IF optimal = delete THEN DELETE
    ELSE IF optimal = insert THEN INSERT
    ELSE IF optimal = replace THEN replace_action
    ELSE ""

\* the if / elif / elif chain; a cell no branch matches keeps ''
SelectAction(optimal, insert, delete, replace, replace_action) ==
    IF optimal = insert THEN INSERT
    ELSE IF optimal = delete THEN DELETE
    ELSE IF optimal = replace THEN replace_action
    ELSE ""

Init ==
    /\ original \in Inputs
    /\ final \in Inputs
    /\ pc = "loop_i"
    /\ matrix = [a \in 0..Len(original) |-> [b \in 0..Len(final) |-> 0]]
    /\ action_matrix = [a \in 0..Len(original) |-> [b \in 0..Len(final) |-> ""]]
    /\ gm_i = 0
    /\ gm_j = 0
    /\ gp_i = 0
    /\ gp_j = 0
    /\ prescr = <<>>
    /\ prescription = <<>>
    /\ started = FALSE
    /\ gr_k = 0
    /\ gr_i = 0
    /\ total = 0
    /\ heap = <<>>
    /\ result = 0
    /\ yielded = <<>>
    /\ seen = <<>>
    /\ err = ""

\* for i in range(size_origin): one iteration
BorderColumn ==
    /\ pc = "loop_i"
    /\ matrix' = [matrix EXCEPT ![gm_i][0] = BorderCost(gm_i)]
    /\ action_matrix' = [action_matrix EXCEPT ![gm_i][0] = BorderColAction]
    /\ IF gm_i + 1 < size_origin
       THEN /\ gm_i' = gm_i + 1
            /\ pc' = pc
       ELSE /\ gm_i' = 0
            /\ pc' = "loop_j"
    /\ UNCHANGED <<original, final, gm_j, gp_i, gp_j, prescr, prescription,
                   started, gr_k, gr_i, total, heap, result, yielded, seen, err>>

\* for j in range(size_final): one iteration
BorderRow ==
    /\ pc = "loop_j"
    /\ matrix' = [matrix EXCEPT ![0][gm_j] = BorderCost(gm_j)]
    /\ action_matrix' = [action_matrix EXCEPT ![0][gm_j] = BorderRowAction]
    /\ IF gm_j + 1 < size_final
       THEN /\ gm_j' = gm_j + 1
            /\ gm_i' = gm_i
            /\ pc' = pc
       ELSE IF Len(original) >= 1 /\ Len(final) >= 1
            THEN /\ gm_i' = 1
                 /\ gm_j' = 1
                 /\ pc' = "fill"
            ELSE /\ gm_i' = gm_i
                 /\ gm_j' = gm_j
                 /\ pc' = "return"
    /\ UNCHANGED <<original, final, gp_i, gp_j, prescr, prescription,
                   started, gr_k, gr_i, total, heap, result, yielded, seen, err>>

\* body of the nested loops over enumerate(original, 1), enumerate(final, 1)
FillCell ==
    /\ pc = "fill"
    /\ LET replace_action == ReplaceAction(original[gm_i], final[gm_j])
           insert == matrix[gm_i][gm_j - 1] + COST_MAP[INSERT]
           delete == matrix[gm_i - 1][gm_j] + COST_MAP[DELETE]
           replace == matrix[gm_i - 1][gm_j - 1] + COST_MAP[replace_action]
           optimal == Min3(insert, delete, replace)
           action == SelectAction(optimal, insert, delete, replace, replace_action)
       IN /\ matrix' = [matrix EXCEPT ![gm_i][gm_j] = optimal]
          /\ action_matrix' =
                IF action = "" THEN action_matrix
                ELSE [action_matrix EXCEPT ![gm_i][gm_j] = action]
    /\ IF gm_j < Len(final)
       THEN /\ gm_j' = gm_j + 1
            /\ gm_i' = gm_i
            /\ pc' = pc
       ELSE IF gm_i < Len(original)
            THEN /\ gm_i' = gm_i + 1
                 /\ gm_j' = 1
                 /\ pc' = pc
            ELSE /\ gm_i' = gm_i
                 /\ gm_j' = gm_j
                 /\ pc' = "return"
    /\ UNCHANGED <<original, final, gp_i, gp_j, prescr, prescription,
                   started, gr_k, gr_i, total, heap, result, yielded, seen, err>>

----------------------------------------------------------------------------
\* get_prescription

\* return action_matrix, then i, j = len(action_matrix) - 1, len(action_matrix[0]) - 1
PrescriptionStart ==
    /\ pc = "return"
    /\ gp_i' = size_origin - 1
    /\ gp_j' = size_final - 1
    /\ prescr' = <<>>
    /\ pc' = "trace"
    /\ UNCHANGED <<original, final, matrix, action_matrix, gm_i, gm_j,
                   prescription, started, gr_k, gr_i, total, heap, result,
                   yielded, seen, err>>

\* the walk with a match stepping up only
TraceMove_MatchUp(action, i, j) ==
    IF action = DELETE THEN [err |-> "", i |-> i - 1, j |-> j]
    ELSE IF action = INSERT THEN [err |-> "", i |-> i, j |-> j - 1]
    ELSE IF action = REPLACE THEN [err |-> "", i |-> i - 1, j |-> j - 1]
    ELSE IF action = MATCH THEN [err |-> "", i |-> i - 1, j |-> j]
    ELSE [err |-> "RuntimeError", i |-> i, j |-> j]

\* the index updates of the if / elif chain, the else branch raising RuntimeError
TraceMove(action, i, j) ==
    IF action = DELETE THEN [err |-> "", i |-> i - 1, j |-> j]
    ELSE IF action = INSERT THEN [err |-> "", i |-> i, j |-> j - 1]
    ELSE IF action \in {REPLACE, MATCH} THEN [err |-> "", i |-> i - 1, j |-> j - 1]
    ELSE [err |-> "RuntimeError", i |-> i, j |-> j]

\* one iteration of while i or j
TraceStep ==
    /\ pc = "trace"
    /\ gp_i # 0 \/ gp_j # 0
    /\ IF InRange(gp_i, size_origin) /\ InRange(gp_j, size_final)
       THEN LET action == action_matrix[PyIndex(gp_i, size_origin)][PyIndex(gp_j, size_final)]
                mv == TraceMove(action, gp_i, gp_j)
            IN /\ prescr' = Append(prescr, action)
               /\ gp_i' = mv.i
               /\ gp_j' = mv.j
               /\ err' = mv.err
               /\ pc' = IF mv.err = "" THEN pc ELSE "trace_error"
       ELSE /\ err' = "IndexError"
            /\ pc' = "trace_error"
            /\ UNCHANGED <<prescr, gp_i, gp_j>>
    /\ UNCHANGED <<original, final, matrix, action_matrix, gm_i, gm_j,
                   prescription, started, gr_k, gr_i, total, heap, result,
                   yielded, seen>>

\* prescr.reverse(); return prescr
TraceFinish ==
    /\ pc = "trace"
    /\ gp_i = 0 /\ gp_j = 0
    /\ prescription' = Reverse(prescr)
    /\ pc' = "redact"
    /\ UNCHANGED <<original, final, matrix, action_matrix, gm_i, gm_j, gp_i,
                   gp_j, prescr, started, gr_k, gr_i, total, heap, result,
                   yielded, seen, err>>

----------------------------------------------------------------------------
\* get_redaction

\* the loop body with the cursor left alone after an insert
ApplyAction_InsertNoAdvance(action, res, cur, fin) ==
    IF action = DELETE
    THEN IF cur < Len(res)
         THEN [err |-> "", result |-> ListPop(res, cur), i |-> cur]
         ELSE [err |-> "IndexError", result |-> res, i |-> cur]
    ELSE IF action = INSERT
    THEN IF cur < Len(fin)
         THEN [err |-> "", result |-> ListInsert(res, cur, fin[cur + 1]), i |-> cur]
         ELSE [err |-> "IndexError", result |-> res, i |-> cur]
    ELSE IF action = MATCH
    THEN [err |-> "", result |-> res, i |-> cur + 1]
    ELSE IF action = REPLACE
    THEN IF cur < Len(fin) /\ cur < Len(res)
         THEN [err |-> "", result |-> ListSet(res, cur, fin[cur + 1]), i |-> cur + 1]
         ELSE [err |-> "IndexError", result |-> res, i |-> cur]
    ELSE [err |-> "RuntimeError", result |-> res, i |-> cur]

\* the loop body with the cursor advanced after a delete as well
ApplyAction_DeleteAdvances(action, res, cur, fin) ==
    IF action = DELETE
    THEN IF cur < Len(res)
         THEN [err |-> "", result |-> ListPop(res, cur), i |-> cur + 1]
         ELSE [err |-> "IndexError", result |-> res, i |-> cur]
    ELSE IF action = INSERT
    THEN IF cur < Len(fin)
         THEN [err |-> "", result |-> ListInsert(res, cur, fin[cur + 1]), i |-> cur + 1]
         ELSE [err |-> "IndexError", result |-> res, i |-> cur]
    ELSE IF action = MATCH
    THEN [err |-> "", result |-> res, i |-> cur + 1]
    ELSE IF action = REPLACE
    THEN IF cur < Len(fin) /\ cur < Len(res)
         THEN [err |-> "", result |-> ListSet(res, cur, fin[cur + 1]), i |-> cur + 1]
         ELSE [err |-> "IndexError", result |-> res, i |-> cur]
    ELSE [err |-> "RuntimeError", result |-> res, i |-> cur]

\* the if / elif chain of the loop body on the working list res with cursor cur
ApplyAction(action, res, cur, fin) ==
    IF action = DELETE
    THEN IF cur < Len(res)
         THEN [err |-> "", result |-> ListPop(res, cur), i |-> cur]
         ELSE [err |-> "IndexError", result |-> res, i |-> cur]
    ELSE IF action = INSERT
    THEN IF cur < Len(fin)
         THEN [err |-> "", result |-> ListInsert(res, cur, fin[cur + 1]), i |-> cur + 1]
         ELSE [err |-> "IndexError", result |-> res, i |-> cur]
    ELSE IF action = MATCH
    THEN [err |-> "", result |-> res, i |-> cur + 1]
    ELSE IF action = REPLACE
    THEN IF cur < Len(fin) /\ cur < Len(res)
         THEN [err |-> "", result |-> ListSet(res, cur, fin[cur + 1]), i |-> cur + 1]
         ELSE [err |-> "IndexError", result |-> res, i |-> cur]
    ELSE [err |-> "RuntimeError", result |-> res, i |-> cur]

\* the object handed out by yield action, i, total, result: the reference ref
\* of the working list itself
YieldedResult(ref) == ref

\* next() on the generator: on the first call total, i = 0, 0 and
\* result = list(original); then one iteration of the loop up to the yield,
\* or StopIteration when the prescription is exhausted
RedactionNext ==
    /\ pc = "redact"
    /\ LET heap0 == IF started THEN heap ELSE Append(heap, original)
           result0 == IF started THEN result ELSE Len(heap0)
       IN /\ started' = TRUE
          /\ result' = result0
          /\ IF gr_k = Len(prescription)
             THEN /\ heap' = heap0
                  /\ pc' = "done"
                  /\ UNCHANGED <<gr_k, gr_i, total, yielded, seen, err>>
             ELSE LET action == prescription[gr_k + 1]
                      r == ApplyAction(action, heap0[result0], gr_i, final)
                  IN IF r.err # ""
                     THEN /\ heap' = heap0
                          /\ err' = r.err
                          /\ pc' = "redact_error"
                          /\ UNCHANGED <<gr_k, gr_i, total, yielded, seen>>
                     ELSE /\ heap' = [heap0 EXCEPT ![result0] = r.result]
                          /\ gr_i' = r.i
                          /\ gr_k' = gr_k + 1
                          /\ total' = total + COST_MAP[action]
                          /\ yielded' = Append(yielded,
                                 <<action, r.i, total + COST_MAP[action],
                                   YieldedResult(result0)>>)
                          /\ seen' = Append(seen, r.result)
                          /\ UNCHANGED <<pc, err>>
    /\ UNCHANGED <<original, final, matrix, action_matrix, gm_i, gm_j, gp_i,
                   gp_j, prescr, prescription>>

----------------------------------------------------------------------------
Next ==
    \/ BorderColumn
    \/ BorderRow
    \/ FillCell
    \/ PrescriptionStart
    \/ TraceStep
    \/ TraceFinish
    \/ RedactionNext

Spec == Init /\ [][Next]_vars

----------------------------------------------------------------------------
\* Vocabulary of the properties

\* cell (a, 0) has been written by the first loop
BorderColDone(a) == pc # "loop_i" \/ a < gm_i

\* cell (0, b) has been written by the second loop
BorderRowDone(b) == pc # "loop_i" /\ (pc # "loop_j" \/ b < gm_j)

\* interior cell (a, b) has been written by the nested loops
InteriorFilled(a, b) ==
    /\ pc \notin {"loop_i", "loop_j"}
    /\ pc # "fill" \/ a < gm_i \/ (a = gm_i /\ b < gm_j)

\* get_prescription has returned
Returned == pc \in {"redact", "done", "redact_error"}

\* number of entries of s that lie in the set tags
RECURSIVE Count(_, _)
Count(s, tags) ==
    IF s = <<>> THEN 0
    ELSE (IF s[Len(s)] \in tags THEN 1 ELSE 0) + Count(SubSeq(s, 1, Len(s) - 1), tags)

\* sum of COST_MAP over the entries of s
RECURSIVE SumCost(_)
SumCost(s) ==
    IF s = <<>> THEN 0
    ELSE COST_MAP[s[Len(s)]] + SumCost(SubSeq(s, 1, Len(s) - 1))

SetMin(S) == CHOOSE x \in S : \A y \in S : x <= y

\* weighted Levenshtein distance between the first a elements of original and
\* the first b elements of final (reference recursion)
RECURSIVE RefDist(_, _)
RefDist(a, b) ==
    IF a = 0 THEN b * COST_MAP[INSERT]
    ELSE IF b = 0 THEN a * COST_MAP[DELETE]
    ELSE SetMin({RefDist(a, b - 1) + COST_MAP[INSERT],
                 RefDist(a - 1, b) + COST_MAP[DELETE],
                 RefDist(a - 1, b - 1)
                    + (IF original[a] = final[b] THEN COST_MAP[MATCH] ELSE COST_MAP[REPLACE])})

\* the working sequence of the replay (the copy of original before the first step)
Working == IF started THEN heap[result] ELSE original

ConsumedA(k) == Count(SubSeq(prescription, 1, k), {DELETE, MATCH, REPLACE})
ConsumedB(k) == Count(SubSeq(prescription, 1, k), {INSERT, MATCH, REPLACE})

----------------------------------------------------------------------------
\* C1 - round trip: once the replay of the prescription of (original, final)
\* is exhausted, the working sequence equals final, and so does the last
\* snapshot handed out; for two empty inputs no step is produced.
RoundTrip ==
    pc = "done" =>
        /\ heap[result] = final
        /\ yielded # <<>> => seen[Len(seen)] = final
        /\ (original = <<>> /\ final = <<>>) => (yielded = <<>> /\ heap[result] = <<>>)

RoundTripWitness ==
    /\ pc = "done"
    /\ original # final
    /\ Len(original) >= 2 /\ Len(final) >= 2
    /\ \E k \in 1..Len(prescription) : prescription[k] = INSERT
    /\ \E k \in 1..Len(prescription) : prescription[k] = DELETE
    /\ \E k \in 1..Len(prescription) : prescription[k] = MATCH
    /\ heap[result] = final

\* C2 - optimality: the summed cost of the returned prescription is the
\* weighted Levenshtein distance of (original, final).
PrescriptionOptimal ==
    Returned => SumCost(prescription) = RefDist(Len(original), Len(final))

\* C3 - the running total of the last replay step equals the cost-matrix
\* cell matrix[len(original)][len(final)].
TotalEqualsMatrixCell ==
    pc = "done" => total = matrix[Len(original)][Len(final)]

\* C4 - snapshot independence: the sequence a yielded step carries still
\* reads as it did when the step was yielded, whatever steps followed.
SnapshotIndependent ==
    \A k \in 1..Len(yielded) : heap[yielded[k][4]] = seen[k]

\* C5 - identity: the prescription of (A, A) is len(A) Match entries and
\* its replayed total is 0.
IdentityAllMatch ==
    (original = final /\ Returned) =>
        /\ prescription = [k \in 1..Len(original) |-> MATCH]
        /\ total = 0
        /\ pc # "redact_error"

IdentityWitness ==
    /\ pc = "done"
    /\ original = final
    /\ Len(original) >= 2
    /\ original[1] = original[2]
    /\ Len(yielded) = Len(original)

\* C6 - degenerate inputs: with original empty the walk collects only
\* Insert entries and returns len(final) of them; with final empty it
\* collects only Delete entries and returns len(original) of them; with
\* both empty the prescription is empty.
DegenerateInputs ==
    /\ original = <<>> =>
          /\ pc # "trace_error"
          /\ \A k \in 1..Len(prescr) : prescr[k] = INSERT
          /\ Returned => prescription = [k \in 1..Len(final) |-> INSERT]
    /\ final = <<>> =>
          /\ pc # "trace_error"
          /\ \A k \in 1..Len(prescr) : prescr[k] = DELETE
          /\ Returned => prescription = [k \in 1..Len(original) |-> DELETE]

DegenerateWitness ==
    /\ pc = "done"
    /\ original = <<>>
    /\ Len(final) >= 2
    /\ Len(prescription) = Len(final)

\* C7 - border invariant: matrix[0][j] = j * insert cost and
\* matrix[i][0] = i * delete cost for every written border cell.
BorderInvariant ==
    /\ \A a \in 0..Len(original) :
          BorderColDone(a) => matrix[a][0] = a * COST_MAP[DELETE]
    /\ \A b \in 0..Len(final) :
          BorderRowDone(b) => matrix[0][b] = b * COST_MAP[INSERT]

\* C8 - tie-break precedence: every written interior cell holds the minimum
\* of the three candidates, and its action is Insert if the insert candidate
\* is the minimum, else Delete if the delete candidate is, else Match on
\* equal elements and Replace on different ones.
TieBreakPrecedence ==
    \A a \in 1..Len(original) : \A b \in 1..Len(final) :
        InteriorFilled(a, b) =>
            LET ins == matrix[a][b - 1] + COST_MAP[INSERT]
                del == matrix[a - 1][b] + COST_MAP[DELETE]
                eq == original[a] = final[b]
                rep == matrix[a - 1][b - 1] + (IF eq THEN COST_MAP[MATCH] ELSE COST_MAP[REPLACE])
                mn == SetMin({ins, del, rep})
            IN /\ matrix[a][b] = mn
               /\ action_matrix[a][b] =
                     IF ins = mn THEN INSERT
                     ELSE IF del = mn THEN DELETE
                     ELSE IF eq THEN MATCH ELSE REPLACE

TieBreakWitness ==
    /\ pc = "return"
    /\ \E a \in 1..Len(original) : \E b \in 1..Len(final) :
          /\ matrix[a][b - 1] + COST_MAP[INSERT] = matrix[a - 1][b] + COST_MAP[DELETE]
          /\ matrix[a][b] = matrix[a][b - 1] + COST_MAP[INSERT]
          /\ action_matrix[a][b] = INSERT

\* C9 - traceback termination: the walk never leaves the matrix, never meets
\* an unknown tag, has taken at most as many steps as it has moved, and the
\* prescription it returns has at most len(original) + len(final) entries,
\* len(original) of them Delete/Match/Replace and len(final) of them
\* Insert/Match/Replace.
TracebackTerminates ==
    /\ pc # "trace_error"
    /\ pc = "trace" =>
          /\ gp_i \in 0..Len(original)
          /\ gp_j \in 0..Len(final)
          /\ Len(prescr) <= (Len(original) - gp_i) + (Len(final) - gp_j)
          /\ (gp_i # 0 \/ gp_j # 0) =>
                action_matrix[gp_i][gp_j] \in {DELETE, INSERT, REPLACE, MATCH}
    /\ Returned =>
          /\ gp_i = 0 /\ gp_j = 0
          /\ Len(prescription) <= Len(original) + Len(final)
          /\ Count(prescription, {DELETE, MATCH, REPLACE}) = Len(original)
          /\ Count(prescription, {INSERT, MATCH, REPLACE}) = Len(final)

TracebackWitness ==
    /\ pc = "redact"
    /\ Len(original) >= 2 /\ Len(final) >= 2
    /\ Len(prescription) = Len(original) + Len(final)

\* C10 - replay cursor invariant: during the replay the cursor is the number
\* of Insert/Match/Replace entries processed, the working sequence is the
\* first i elements of final followed by the unconsumed suffix of original,
\* the accesses of the next step are in range, and every Match entry sits
\* where the element of original equals the element of final it is aligned to.
ReplayCursorInvariant ==
    /\ pc # "redact_error"
    /\ pc \in {"redact", "done"} =>
          /\ gr_i = ConsumedB(gr_k)
          /\ Working = SubSeq(final, 1, gr_i)
                          \o SubSeq(original, ConsumedA(gr_k) + 1, Len(original))
          /\ gr_k < Len(prescription) =>
                LET action == prescription[gr_k + 1]
                IN /\ action = DELETE => gr_i < Len(Working)
                   /\ action = INSERT => gr_i < Len(final)
                   /\ action = REPLACE => (gr_i < Len(final) /\ gr_i < Len(Working))
                   /\ action = MATCH => gr_i < Len(Working)
          /\ \A k \in 1..Len(prescription) :
                prescription[k] = MATCH =>
                    original[ConsumedA(k)] = final[ConsumedB(k)]

ReplayCursorWitness ==
    /\ pc = "redact"
    /\ gr_k >= 3
    /\ prescription[gr_k] = MATCH
    /\ \E k \in 1..gr_k : prescription[k] = INSERT
    /\ \E k \in 1..gr_k : prescription[k] = DELETE
    /\ gr_i < gr_k

====
